---- MODULE Spec2Model ----
(***************************************************************************)
(* State-machine model of the raw GSSAPI extension wrappers of             *)
(* python-gssapi: ext_dce_aead.pyx (wrap_aead, unwrap_aead),               *)
(* ext_password_add.pyx (add_cred_with_password) and ext_rfc6680.pyx       *)
(* (display_name_ext, inquire_name, set_name_attribute,                    *)
(* get_name_attribute, delete_name_attribute, export_name_composite,       *)
(* set_cred_option).                                                       *)
(*                                                                         *)
(* One wrapper invocation runs at a time.  An invocation is split at its   *)
(* native calls: the wrapper's entry action marshals the arguments and     *)
(* issues the call (pc = "native"), the gss_* action is the native library *)
(* executing it (the environment: it picks the status and the outputs),    *)
(* and the wrapper's _status action is the code that follows the call up   *)
(* to the next native call, the return or the raise.  `trace` records the  *)
(* native calls, buffer releases, the return and the raise in order.       *)
(***************************************************************************)
EXTENDS Integers, Sequences, FiniteSets, TLC

\* ------------------------------------------------------------------ bounds
\* longest `value` list given to set_name_attribute
MaxValueLen == 2
\* most values the native library keeps for the attribute
MaxAttrVals == 3
\* size_t is modelled modulo SizeTMod (a scaled-down 2^64)
SizeTMod == 4
\* most attribute names gss_inquire_name puts in its buffer set
MaxAttrNames == 2

\* ------------------------------------------------------------- value sets
Values == {"v1", "v2"}
AttrKey == "urn:attr"
GSS_S_COMPLETE == "GSS_S_COMPLETE"
\* the (major, minor) status pairs of a failing native call
FailCodes == {<<"GSS_S_FAILURE", 1>>, <<"GSS_S_UNAVAILABLE", 2>>}
Undef == "uninitialized"
None == "None"

NULL == "NULL"

\* an output gss_buffer_desc before the native call fills it: (0, NULL)
GSS_C_EMPTY_BUFFER == "GSS_C_EMPTY_BUFFER"

\* a C int holding a truth value
BoolInt(b) == IF b THEN 1 ELSE 0

RECURSIVE SeqsUpTo(_, _)
SeqsUpTo(S, n) ==
    IF n = 0 THEN {<<>>}
    ELSE LET shorter == SeqsUpTo(S, n - 1)
         IN  shorter \cup {Append(s, x) : s \in {t \in shorter : Len(t) = n - 1}, x \in S}

ValueLists == SeqsUpTo(Values, MaxValueLen)

\* the display rendering the native library pairs with a raw value
DisplayOf(v) == <<"display", v>>

VARIABLES
    pc,         \* "idle" | "native" | "status" | "done"
    op,         \* the wrapper being invoked, or None
    gil,        \* TRUE while the invoking thread holds the execution lock
    args,       \* the invocation's Python arguments
    loc,        \* the wrapper's C locals and Python lists
    pend,       \* the native call issued and not yet returned
    maj_stat,   \* cdef OM_uint32 maj_stat
    min_stat,   \* cdef OM_uint32 min_stat
    trace,      \* events of the invocation, in order
    name_attr,  \* the Name's attribute as the native library holds it
    entry_attr, \* name_attr as it was when the invocation began
    prev        \* the caller's previous invocation, when this one follows it up

vars == <<pc, op, gil, args, loc, pend, maj_stat, min_stat, trace, name_attr, entry_attr,
          prev>>

NoArgs == [none |-> TRUE]
NoPend == [fn |-> None]
NoPrev == [op |-> None]

\* the pairs of wrappers a caller uses one after the other on the same
\* context or name: unwrap what was wrapped, read or extend what was set,
\* read again, set again after a delete
Follows ==
    {<<"wrap_aead", "unwrap_aead">>,
     <<"set_name_attribute", "get_name_attribute">>,
     <<"get_name_attribute", "get_name_attribute">>,
     <<"set_name_attribute", "set_name_attribute">>,
     <<"delete_name_attribute", "set_name_attribute">>}

\* the previous invocation is remembered through the invocation that follows
\* it up, and forgotten by any other
KeepPrev(wrapper) == IF <<prev.op, wrapper>> \in Follows THEN prev ELSE NoPrev

\* ------------------------------------------------------------------ events
CallEv(call, maj, min, populated, out) ==
    [ev |-> "call", fn |-> call.fn, args |-> call.args,
     maj |-> maj, min |-> min, populated |-> populated, out |-> out]
ReleaseEv(fn, buf) == [ev |-> "release", fn |-> fn, buf |-> buf]
RaiseEv(exc, maj, min) == [ev |-> "raise", exc |-> exc, maj |-> maj, min |-> min]
ReturnEv(value) == [ev |-> "return", value |-> value]
CopyEv(buf, data) == [ev |-> "copy", buf |-> buf, data |-> data]
\* the execution lock is released (`with nogil:`) or taken again (the end of
\* the block)
LockEv(held) == [ev |-> "lock", held |-> held]
\* a Python object is created: Creds()
NewEv(obj) == [ev |-> "new", obj |-> obj]

Events(kind) == SelectSeq(trace, LAMBDA e : e.ev = kind)
Calls == Events("call")
Releases == Events("release")
Raises == Events("raise")
Returns == Events("return")

RECURSIVE SumPopulated(_)
SumPopulated(cs) ==
    IF cs = <<>> THEN 0 ELSE Cardinality(Head(cs).populated) + SumPopulated(Tail(cs))

Init ==
    /\ pc = "idle"
    /\ op = None
    /\ gil = TRUE
    /\ args = NoArgs
    /\ loc = NoArgs
    /\ pend = NoPend
    /\ maj_stat = Undef
    /\ min_stat = Undef
    /\ trace = <<>>
    /\ name_attr \in [vals : {<<>>}, complete : {FALSE}, authenticated : BOOLEAN]
    /\ entry_attr = name_attr
    /\ prev = NoPrev

\* ------------------------------------------------------- shared step shapes
\* the wrapper issues a native call
Issue(call) ==
    /\ pend' = call
    /\ pc' = "native"

\* the native library returns: the status is written, and the locals the
\* call was given pointers to are left as `out`; `populated` names the output
\* buffers the call left holding native-allocated memory
NativeReturn(maj, min, populated, out) ==
    /\ maj_stat' = maj
    /\ min_stat' = min
    /\ loc' = out
    /\ trace' = Append(trace, CallEv(pend, maj, min, populated, out))
    /\ pend' = NoPend
    /\ pc' = "status"

\* a failing native call: any failure status; the library may have allocated
\* its output buffers (bufs) before it failed, or none of them; the other
\* out-parameters are left as they were
NativeFails(bufs) ==
    \E code \in FailCodes, populated \in {{}, bufs} :
        NativeReturn(code[1], code[2], populated,
                     [b \in DOMAIN loc |->
                         IF b \notin populated THEN loc[b]
                         ELSE IF b = "attr_names" THEN [count |-> 0, elements |-> <<>>]
                         ELSE "partial output"])

\* an error that keeps the major code and drops the minor code
RaiseGSSError_minor_lost(evs) ==
    /\ trace' = trace \o evs \o <<RaiseEv("GSSError", maj_stat, 0)>>
    /\ pc' = "done"

\* raise GSSError(maj_stat, min_stat)
RaiseGSSError(evs) ==
    /\ trace' = trace \o evs \o <<RaiseEv("GSSError", maj_stat, min_stat)>>
    /\ pc' = "done"

\* return value
ReturnValue(evs, value) ==
    /\ trace' = trace \o evs \o <<ReturnEv(value)>>
    /\ pc' = "done"

\* `with nogil:` entered: the lock is released for the native call
WithNogil(evs) ==
    /\ gil' = FALSE
    /\ trace' = trace \o evs \o <<LockEv(FALSE)>>

\* a block that also spans the copy and release that follow the call
AfterNogil_late(evs) == evs \o <<LockEv(TRUE)>>

\* the `with nogil:` block ends with the native call: the lock is held again
\* for all that follows
AfterNogil(evs) == <<LockEv(TRUE)>> \o evs

\* -------------------------------------------------- wrap_aead, unwrap_aead
\* bytes objects are sequences of byte values; an absent argument is None
Messages == {<<1>>, <<2>>}
AssocBytes == {<<>>, <<7>>}
QopValues == {"GSS_C_QOP_DEFAULT", "qop_1"}

\* the null gss_buffer_t
GSS_C_NO_BUFFER == [null |-> TRUE]

\* a descriptor whose length is left at 0
BufferDesc_no_length(b) == [length |-> 0, value |-> b]

\* gss_buffer_desc(len(b), b)
BufferDesc(b) == [length |-> Len(b), value |-> b]

\* the bytes the native library reads through a descriptor: `length` bytes
\* from `value`
BytesOf(desc) == SubSeq(desc.value, 1, desc.length)

\* the associated data is never handed to the native call
AssocBufferPtr_dropped(associated) == GSS_C_NO_BUFFER

\* a truthiness test (`if associated:`), which also drops b""
AssocBufferPtr_truthy(associated) ==
    IF associated # None /\ associated # <<>>
    THEN BufferDesc(associated) ELSE GSS_C_NO_BUFFER

\* assoc_buffer_ptr: GSS_C_NO_BUFFER unless `associated is not None`
AssocBufferPtr(associated) ==
    IF associated # None THEN BufferDesc(associated) ELSE GSS_C_NO_BUFFER

\* the associated bytes the native library authenticates: none for a null
\* pointer, the descriptor's bytes otherwise
MacInput(ptr) == IF ptr = GSS_C_NO_BUFFER THEN <<>> ELSE BytesOf(ptr)

\* a wrapped message as the native library produces it, and one it rejects
Sealed(payload, assoc, conf, qop) ==
    [payload |-> payload, assoc |-> assoc, conf |-> conf, qop |-> qop]
Tampered == [tampered |-> TRUE]
Tokens ==
    {Sealed(m, a, c, q) : m \in Messages, a \in AssocBytes, c \in {0, 1}, q \in QopValues}
        \cup {Tampered}

\* the message the peer presents to unwrap_aead: the one wrap_aead has just
\* produced, as sent or altered on the way; any wrapped message otherwise
Received ==
    IF prev.op = "wrap_aead" THEN {prev.result.message, Tampered} ELSE Tokens

wrap_aead ==
    /\ pc = "idle"
    /\ \E message \in Messages, given \in BOOLEAN, a \in AssocBytes,
          confidential \in BOOLEAN, qop \in {None, "qop_1"} :
        LET associated == IF given THEN a ELSE None
        IN  /\ args' = [message |-> message, associated |-> associated,
                        confidential |-> confidential, qop |-> qop]
            /\ Issue([fn |-> "gss_wrap_aead",
                      args |-> [conf_req |-> BoolInt(confidential),
                                qop_req |-> IF qop # None THEN qop ELSE "GSS_C_QOP_DEFAULT",
                                input_assoc_buffer |-> AssocBufferPtr(associated),
                                input_payload_buffer |-> BufferDesc(message)]])
    /\ op' = "wrap_aead"
    /\ loc' = [conf_used |-> Undef, output_buffer |-> GSS_C_EMPTY_BUFFER]
    /\ WithNogil(<<>>)
    /\ UNCHANGED <<maj_stat, min_stat, name_attr, entry_attr>>
    /\ prev' = KeepPrev("wrap_aead")

\* the mechanism may apply confidentiality only when asked to
gss_wrap_aead ==
    /\ pc = "native"
    /\ pend.fn = "gss_wrap_aead"
    /\ \/ \E conf_ret \in {0, pend.args.conf_req} :
            NativeReturn(GSS_S_COMPLETE, 0, {"output_buffer"},
                         [conf_used |-> conf_ret,
                          output_buffer |-> Sealed(BytesOf(pend.args.input_payload_buffer),
                                                   MacInput(pend.args.input_assoc_buffer),
                                                   conf_ret, pend.args.qop_req)])
       \/ NativeFails({"output_buffer"})
    /\ UNCHANGED <<op, gil, args, name_attr, entry_attr, prev>>

wrap_aead_status ==
    /\ pc = "status"
    /\ op = "wrap_aead"
    /\ gil' = TRUE
    /\ IF maj_stat = GSS_S_COMPLETE
       THEN /\ ReturnValue(AfterNogil(<<CopyEv("output_buffer", loc.output_buffer),
                                        ReleaseEv("gss_release_buffer", "output_buffer")>>),
                           [message |-> loc.output_buffer,
                            encrypted |-> (loc.conf_used # 0)])
            /\ loc' = [loc EXCEPT !.output_buffer = GSS_C_EMPTY_BUFFER]
            /\ min_stat' = 0
       ELSE /\ RaiseGSSError(AfterNogil(<<>>))
            /\ UNCHANGED <<loc, min_stat>>
    /\ UNCHANGED <<op, args, pend, maj_stat, name_attr, entry_attr, prev>>

unwrap_aead ==
    /\ pc = "idle"
    /\ \E message \in Received, given \in BOOLEAN, a \in AssocBytes :
        LET associated == IF given THEN a ELSE None
        IN  /\ args' = [message |-> message, associated |-> associated]
            /\ Issue([fn |-> "gss_unwrap_aead",
                      args |-> [input_message_buffer |-> message,
                                input_assoc_buffer |-> AssocBufferPtr(associated)]])
    /\ op' = "unwrap_aead"
    /\ loc' = [output_buffer |-> GSS_C_EMPTY_BUFFER, conf_state |-> Undef,
               qop_state |-> Undef]
    /\ WithNogil(<<>>)
    /\ UNCHANGED <<maj_stat, min_stat, name_attr, entry_attr>>
    /\ prev' = KeepPrev("unwrap_aead")

\* the native library accepts only an unaltered wrapped message presented
\* with the associated bytes it was wrapped with
gss_unwrap_aead ==
    /\ pc = "native"
    /\ pend.fn = "gss_unwrap_aead"
    /\ \/ /\ pend.args.input_message_buffer # Tampered
          /\ pend.args.input_message_buffer.assoc = MacInput(pend.args.input_assoc_buffer)
          /\ NativeReturn(GSS_S_COMPLETE, 0, {"output_buffer"},
                          [output_buffer |-> pend.args.input_message_buffer.payload,
                           conf_state |-> pend.args.input_message_buffer.conf,
                           qop_state |-> pend.args.input_message_buffer.qop])
       \/ NativeFails({"output_buffer"})
    /\ UNCHANGED <<op, gil, args, name_attr, entry_attr, prev>>

unwrap_aead_status ==
    /\ pc = "status"
    /\ op = "unwrap_aead"
    /\ gil' = TRUE
    /\ IF maj_stat = GSS_S_COMPLETE
       THEN /\ ReturnValue(AfterNogil(<<CopyEv("output_buffer", loc.output_buffer),
                                        ReleaseEv("gss_release_buffer", "output_buffer")>>),
                           [message |-> loc.output_buffer,
                            encrypted |-> (loc.conf_state # 0),
                            qop |-> loc.qop_state])
            /\ loc' = [loc EXCEPT !.output_buffer = GSS_C_EMPTY_BUFFER]
            /\ min_stat' = 0
       ELSE /\ RaiseGSSError(AfterNogil(<<>>))
            /\ UNCHANGED <<loc, min_stat>>
    /\ UNCHANGED <<op, args, pend, maj_stat, name_attr, entry_attr, prev>>

\* -------------------------------------------------- add_cred_with_password
Usages == {"initiate", "accept", "both", "bogus"}
Lifetimes == {None, "0"}
GSS_C_INDEFINITE == "GSS_C_INDEFINITE"

\* the Creds object the caller holds, and the native handle it wraps
RawCredsOf(creds) == IF creds = "creds_in" THEN "cred_handle_in" ELSE Undef

\* an argument check that lets None through
InputCredAccepted_any(input_cred) == TRUE

\* `Creds input_cred not None`: the argument check of the signature
InputCredAccepted(input_cred) == input_cred # None

\* a chain whose last branch takes every other value for 'both'
CUsage_unvalidated(usage) ==
    IF usage = "initiate" THEN "GSS_C_INITIATE"
    ELSE IF usage = "accept" THEN "GSS_C_ACCEPT"
    ELSE "GSS_C_BOTH"

\* the if/elif chain over `usage`
CUsage(usage) ==
    IF usage = "initiate" THEN "GSS_C_INITIATE"
    ELSE IF usage = "accept" THEN "GSS_C_ACCEPT"
    ELSE IF usage = "both" THEN "GSS_C_BOTH"
    ELSE "ValueError"

\* None is the indefinite lifetime
c_py_ttl_to_c(ttl) == IF ttl = None THEN GSS_C_INDEFINITE ELSE ttl
c_c_ttl_to_py(ttl) == IF ttl = GSS_C_INDEFINITE THEN None ELSE ttl

add_cred_with_password ==
    /\ pc = "idle"
    /\ \E input_cred \in {None, "creds_in"}, usage \in Usages,
          init_lifetime \in Lifetimes, accept_lifetime \in Lifetimes :
        /\ args' = [input_cred |-> input_cred, usage |-> usage,
                    init_lifetime |-> init_lifetime, accept_lifetime |-> accept_lifetime]
        /\ IF ~InputCredAccepted(input_cred)
           THEN /\ trace' = <<RaiseEv("TypeError", None, None)>>
                /\ pc' = "done"
                /\ UNCHANGED <<pend, gil>>
           ELSE IF CUsage(usage) = "ValueError"
           THEN /\ trace' = <<RaiseEv("ValueError", None, None)>>
                /\ pc' = "done"
                /\ UNCHANGED <<pend, gil>>
           ELSE /\ Issue([fn |-> "gss_add_cred_with_password",
                          args |-> [input_cred_handle |-> RawCredsOf(input_cred),
                                    cred_usage |-> CUsage(usage),
                                    initiator_ttl |-> c_py_ttl_to_c(init_lifetime),
                                    acceptor_ttl |-> c_py_ttl_to_c(accept_lifetime)]])
                /\ WithNogil(<<>>)
    /\ op' = "add_cred_with_password"
    /\ loc' = [creds |-> Undef, actual_mechs |-> Undef,
               actual_initiator_ttl |-> Undef, actual_acceptor_ttl |-> Undef]
    /\ UNCHANGED <<maj_stat, min_stat, name_attr, entry_attr>>
    /\ prev' = KeepPrev("add_cred_with_password")

\* the native library creates the output credential
gss_add_cred_with_password ==
    /\ pc = "native"
    /\ pend.fn = "gss_add_cred_with_password"
    /\ \/ NativeReturn(GSS_S_COMPLETE, 0, {},
                        [creds |-> "cred_handle_new", actual_mechs |-> "mech_oid_set",
                         actual_initiator_ttl |-> pend.args.initiator_ttl,
                         actual_acceptor_ttl |-> pend.args.acceptor_ttl])
       \/ NativeFails({})
    /\ UNCHANGED <<op, gil, args, name_attr, entry_attr, prev>>

add_cred_with_password_status ==
    /\ pc = "status"
    /\ op = "add_cred_with_password"
    /\ gil' = TRUE
    /\ IF maj_stat = GSS_S_COMPLETE
       THEN ReturnValue(AfterNogil(<<NewEv("Creds()")>>),
                        [creds |-> [obj |-> "Creds()", raw_creds |-> loc.creds],
                         mechs |-> loc.actual_mechs,
                         init_lifetime |-> c_c_ttl_to_py(loc.actual_initiator_ttl),
                         accept_lifetime |-> c_c_ttl_to_py(loc.actual_acceptor_ttl)])
       ELSE RaiseGSSError(AfterNogil(<<>>))
    /\ UNCHANGED <<op, args, loc, pend, maj_stat, min_stat, name_attr, entry_attr, prev>>

\* ----------------------------------------------------------- set_cred_option
GSS_C_NO_CREDENTIAL == "GSS_C_NO_CREDENTIAL"
OptionBytes == {<<>>, <<5>>}

\* a wrapper that always works on a new Creds object holding the caller's handle
OutputCreds_copy(creds) ==
    [obj |-> "Creds()",
     raw_creds |-> IF creds = None THEN GSS_C_NO_CREDENTIAL ELSE RawCredsOf(creds)]

\* `output_creds = creds`, and `Creds()` when that is None; a Creds object is
\* its identity (obj) and the native handle it wraps (raw_creds)
OutputCreds(creds) ==
    IF creds = None
    THEN [obj |-> "Creds()", raw_creds |-> GSS_C_NO_CREDENTIAL]
    ELSE [obj |-> creds, raw_creds |-> RawCredsOf(creds)]

set_cred_option ==
    /\ pc = "idle"
    /\ \E creds \in {None, "creds_in"}, given \in BOOLEAN, v \in OptionBytes :
        LET value == IF given THEN v ELSE None
            value_buffer == IF value # None THEN BufferDesc(value)
                            ELSE [length |-> 0, value |-> NULL]
            output_creds == OutputCreds(creds)
        IN  /\ args' = [creds |-> creds, value |-> value]
            /\ loc' = [output_creds |-> output_creds]
            /\ WithNogil(IF output_creds.obj = creds THEN <<>>
                         ELSE <<NewEv(output_creds.obj)>>)
            /\ Issue([fn |-> "gss_set_cred_option",
                      args |-> [cred |-> output_creds.raw_creds, value |-> value_buffer]])
    /\ op' = "set_cred_option"
    /\ UNCHANGED <<maj_stat, min_stat, name_attr, entry_attr>>
    /\ prev' = KeepPrev("set_cred_option")

\* the native library sets the option on the handle in place, creating the
\* credential when the handle is GSS_C_NO_CREDENTIAL
gss_set_cred_option ==
    /\ pc = "native"
    /\ pend.fn = "gss_set_cred_option"
    /\ \/ NativeReturn(GSS_S_COMPLETE, 0, {},
                        [loc EXCEPT !.output_creds.raw_creds =
                            IF @ = GSS_C_NO_CREDENTIAL THEN "cred_handle_new" ELSE @])
       \/ NativeFails({})
    /\ UNCHANGED <<op, gil, args, name_attr, entry_attr, prev>>

set_cred_option_status ==
    /\ pc = "status"
    /\ op = "set_cred_option"
    /\ gil' = TRUE
    /\ IF maj_stat = GSS_S_COMPLETE
       THEN ReturnValue(AfterNogil(<<>>), loc.output_creds)
       ELSE RaiseGSSError(AfterNogil(<<>>))
    /\ UNCHANGED <<op, args, loc, pend, maj_stat, min_stat, name_attr, entry_attr, prev>>

\* ------------------------------------------------------------ inquire_name
\* the null gss_buffer_set_t, and an allocated set holding `names`
GSS_C_NO_BUFFER_SET == [null |-> TRUE]
BufferSet(names) == [count |-> Len(names), elements |-> names]
AttrNames == {"attr_a", "attr_b"}

\* an out-pointer that is always the local's address
OutPtr_always(requested, target) == target

\* an optional out-pointer: set to the local's address only when requested
OutPtr(requested, target) == IF requested THEN target ELSE NULL

\* a test that also skips an allocated set of count 0
HasBufferSet_nonempty(attr_names) ==
    attr_names # GSS_C_NO_BUFFER_SET /\ attr_names.count > 0

\* `if attr_names != GSS_C_NO_BUFFER_SET`: the set is copied and released
HasBufferSet(attr_names) == attr_names # GSS_C_NO_BUFFER_SET

RECURSIVE CopyElements(_, _)
\* `for i in range(attr_names.count)`: one copy per element, in order
CopyElements(elements, i) ==
    IF i > Len(elements) THEN <<>>
    ELSE <<CopyEv(<<"attr_names", i>>, elements[i])>> \o CopyElements(elements, i + 1)

inquire_name ==
    /\ pc = "idle"
    /\ \E mech_name \in BOOLEAN, attrs \in BOOLEAN :
        /\ args' = [mech_name |-> mech_name, attrs |-> attrs]
        /\ Issue([fn |-> "gss_inquire_name",
                  args |-> [name_is_mn |-> OutPtr(mech_name, "&name_is_mn"),
                            mech_type |-> OutPtr(mech_name, "&mn_mech"),
                            attrs |-> OutPtr(attrs, "&attr_names")]])
    /\ op' = "inquire_name"
    /\ loc' = [attr_names |-> GSS_C_NO_BUFFER_SET, name_is_mn |-> 0, mn_mech |-> Undef]
    /\ UNCHANGED <<gil, maj_stat, min_stat, trace, name_attr, entry_attr>>
    /\ prev' = KeepPrev("inquire_name")

\* the native library writes only through the out-pointers that are not NULL;
\* a name without attributes may be reported as GSS_C_NO_BUFFER_SET or as an
\* allocated set of count 0
gss_inquire_name ==
    /\ pc = "native"
    /\ pend.fn = "gss_inquire_name"
    /\ \/ \E names \in {GSS_C_NO_BUFFER_SET}
                         \cup {BufferSet(n) : n \in SeqsUpTo(AttrNames, MaxAttrNames)},
             is_mn \in {0, 1} :
            LET attr_names == IF pend.args.attrs # NULL THEN names ELSE loc.attr_names
                name_is_mn == IF pend.args.name_is_mn # NULL THEN is_mn ELSE loc.name_is_mn
                mn_mech == IF pend.args.mech_type # NULL /\ is_mn = 1
                           THEN "mech_oid" ELSE loc.mn_mech
            IN  NativeReturn(GSS_S_COMPLETE, 0,
                             IF attr_names # GSS_C_NO_BUFFER_SET
                             THEN {"attr_names"} ELSE {},
                             [attr_names |-> attr_names, name_is_mn |-> name_is_mn,
                              mn_mech |-> mn_mech])
       \/ NativeFails(IF pend.args.attrs # NULL THEN {"attr_names"} ELSE {})
    /\ UNCHANGED <<op, gil, args, name_attr, entry_attr, prev>>

inquire_name_status ==
    /\ pc = "status"
    /\ op = "inquire_name"
    /\ IF maj_stat = GSS_S_COMPLETE
       THEN LET copied == HasBufferSet(loc.attr_names)
                py_attr_names == IF copied THEN loc.attr_names.elements ELSE <<>>
                evs == IF copied
                       THEN CopyElements(loc.attr_names.elements, 1)
                            \o <<ReleaseEv("gss_release_buffer_set", "attr_names")>>
                       ELSE <<>>
                py_mech == IF loc.name_is_mn # 0 THEN <<"OID", loc.mn_mech>> ELSE None
            IN  /\ ReturnValue(evs, [attrs |-> py_attr_names,
                                     is_mech_name |-> (loc.name_is_mn # 0),
                                     mech |-> py_mech])
                /\ min_stat' = IF copied THEN 0 ELSE min_stat
                /\ loc' = [loc EXCEPT !.attr_names = GSS_C_NO_BUFFER_SET]
       ELSE /\ RaiseGSSError(<<>>)
            /\ UNCHANGED <<loc, min_stat>>
    /\ UNCHANGED <<op, gil, args, pend, maj_stat, name_attr, entry_attr, prev>>

\* ------------------------------------------------------ set_name_attribute
\* the completeness flag of one gss_set_name_attribute call
CompleteArg(i, value_len, complete) ==
    IF i = value_len THEN complete ELSE 0

\* a loop that hands the first element to every native call
IterValue_first(value, pos) == value[1]

\* the element of `value` one pass of the loop hands to the native call
IterValue(value, pos) == value[pos]

\* one pass of `for val in value` up to the native call: val is value[pos]
SetNameAttributeIter(i, pos, value, complete) ==
    LET i1 == (i + 1) % SizeTMod
    IN  /\ loc' = [value_len |-> Len(value), i |-> i1, pos |-> pos]
        /\ Issue([fn |-> "gss_set_name_attribute",
                  args |-> [complete |-> CompleteArg(i1, Len(value), complete),
                            attr |-> AttrKey, value |-> IterValue(value, pos)]])

\* a status test placed after the loop: with no pass made it reads maj_stat
\* before any call has written it, and raises
AfterEmptyLoop_status_test ==
    /\ RaiseGSSError(<<>>)
    /\ UNCHANGED pend

\* `for val in value` over an empty list: the body, status test included,
\* never runs, and the function falls off its end, returning None
AfterEmptyLoop ==
    /\ ReturnValue(<<>>, None)
    /\ UNCHANGED pend

\* entry: `cdef size_t i` has no initial value
set_name_attribute ==
    /\ pc = "idle"
    /\ \E value \in ValueLists, complete \in {0, 1}, garbage \in 0 .. (SizeTMod - 1) :
        /\ op' = "set_name_attribute"
        /\ args' = [value |-> value, complete |-> complete]
        /\ IF value = <<>>
           THEN /\ loc' = [value_len |-> 0, i |-> garbage, pos |-> 0]
                /\ AfterEmptyLoop
           ELSE /\ SetNameAttributeIter(garbage, 1, value, complete)
                /\ UNCHANGED trace
    /\ UNCHANGED <<gil, maj_stat, min_stat, name_attr, entry_attr>>
    /\ prev' = KeepPrev("set_name_attribute")

\* the native library adds one value and records the completeness flag
gss_set_name_attribute ==
    /\ pc = "native"
    /\ pend.fn = "gss_set_name_attribute"
    /\ \/ /\ Len(name_attr.vals) < MaxAttrVals
          /\ name_attr' = [name_attr EXCEPT !.vals = Append(@, pend.args.value),
                                            !.complete = (pend.args.complete # 0)]
          /\ NativeReturn(GSS_S_COMPLETE, 0, {}, loc)
       \/ /\ NativeFails({})
          /\ UNCHANGED name_attr
    /\ UNCHANGED <<op, gil, args, entry_attr, prev>>

\* a status test that never sees a failure
SetFailed_never(maj) == FALSE

\* `if maj_stat != GSS_S_COMPLETE` after gss_set_name_attribute
SetFailed(maj) == maj # GSS_S_COMPLETE

set_name_attribute_status ==
    /\ pc = "status"
    /\ op = "set_name_attribute"
    /\ IF SetFailed(maj_stat)
       THEN /\ RaiseGSSError(<<>>)
            /\ UNCHANGED <<loc, pend>>
       ELSE IF loc.pos = Len(args.value)
            THEN /\ ReturnValue(<<>>, None)
                 /\ UNCHANGED <<loc, pend>>
            ELSE /\ SetNameAttributeIter(loc.i, loc.pos + 1, args.value, args.complete)
                 /\ UNCHANGED trace
    /\ UNCHANGED <<op, gil, args, maj_stat, min_stat, name_attr, entry_attr, prev>>

\* ------------------------------------------------------ get_name_attribute
\* a loop test that takes the initial -1 for "nothing to fetch"
GetLoopContinues_positive(more_val) == more_val > 0

\* a loop test that never ends the loop
GetLoopContinues_forever(more_val) == TRUE

\* `while more_val != 0`
GetLoopContinues(more_val) == more_val # 0

\* a status test that takes every status for success
GetSucceeded_always(maj) == TRUE

\* `if maj_stat == GSS_S_COMPLETE` after gss_get_name_attribute
GetSucceeded(maj) == maj = GSS_S_COMPLETE

\* a list that outlives the invocation that filled it
EmptyList_kept ==
    IF prev.op = "get_name_attribute" THEN prev.result.raw_values ELSE <<>>

\* `py_vals = []`, `py_displ_vals = []`: a new, empty list
EmptyList == <<>>

\* a result built from the flags the first native call wrote
GetNameAttributeResult_first(py_vals, py_displ_vals, authenticated, complete) ==
    [raw_values |-> py_vals, display_values |-> py_displ_vals,
     authenticated |-> (Calls[1].out.authenticated # 0),
     complete |-> (Calls[1].out.complete # 0)]

\* GetNameAttributeResult(py_vals, py_displ_vals, <bint>authenticated,
\* <bint>complete)
GetNameAttributeResult(py_vals, py_displ_vals, authenticated, complete) ==
    [raw_values |-> py_vals, display_values |-> py_displ_vals,
     authenticated |-> (authenticated # 0), complete |-> (complete # 0)]

GetNameAttributeCall(more_val) ==
    [fn |-> "gss_get_name_attribute", args |-> [attr |-> AttrKey, more |-> more_val]]

get_name_attribute ==
    /\ pc = "idle"
    /\ op' = "get_name_attribute"
    /\ args' = [attr |-> AttrKey]
    /\ loc' = [val_buff |-> GSS_C_EMPTY_BUFFER, displ_val_buff |-> GSS_C_EMPTY_BUFFER,
               complete |-> Undef, authenticated |-> Undef, more_val |-> -1,
               py_vals |-> EmptyList, py_displ_vals |-> EmptyList]
    /\ IF GetLoopContinues(-1)
       THEN /\ Issue(GetNameAttributeCall(-1))
            /\ UNCHANGED trace
       ELSE /\ ReturnValue(<<>>, [raw_values |-> EmptyList, display_values |-> EmptyList,
                                  authenticated |-> Undef, complete |-> Undef])
            /\ UNCHANGED pend
    /\ UNCHANGED <<gil, maj_stat, min_stat, name_attr, entry_attr>>
    /\ prev' = KeepPrev("get_name_attribute")

\* the native library hands out one value per call; `more` is its cursor:
\* -1 starts at the first value, and it is left at the count of values
\* still to come. The call that hands out the last value reports the
\* attribute's authenticated and complete flags; an earlier call reports
\* them too, or leaves both at 0 as not yet determined (the wrapper does not
\* compare the iterations)
gss_get_name_attribute ==
    /\ pc = "native"
    /\ pend.fn = "gss_get_name_attribute"
    /\ \/ /\ name_attr.vals # <<>>
          /\ LET K == Len(name_attr.vals)
                 idx == IF pend.args.more = -1 THEN 1 ELSE K - pend.args.more + 1
                 flags == <<BoolInt(name_attr.authenticated), BoolInt(name_attr.complete)>>
             IN  \E reported \in (IF K - idx = 0 THEN {flags} ELSE {flags, <<0, 0>>}) :
                   NativeReturn(GSS_S_COMPLETE, 0, {"val_buff", "displ_val_buff"},
                                [loc EXCEPT !.val_buff = name_attr.vals[idx],
                                            !.displ_val_buff = DisplayOf(name_attr.vals[idx]),
                                            !.authenticated = reported[1],
                                            !.complete = reported[2],
                                            !.more_val = K - idx])
       \/ NativeFails({"val_buff", "displ_val_buff"})
    /\ UNCHANGED <<op, gil, args, name_attr, entry_attr, prev>>

\* a loop pass that releases neither buffer
GetReleases_none == <<>>

\* gss_release_buffer on val_buff, then on displ_val_buff
GetReleases ==
    <<ReleaseEv("gss_release_buffer", "val_buff"),
      ReleaseEv("gss_release_buffer", "displ_val_buff")>>

get_name_attribute_status ==
    /\ pc = "status"
    /\ op = "get_name_attribute"
    /\ IF GetSucceeded(maj_stat)
       THEN LET after == [loc EXCEPT !.py_vals = Append(@, loc.val_buff),
                                     !.py_displ_vals = Append(@, loc.displ_val_buff),
                                     !.val_buff = GSS_C_EMPTY_BUFFER,
                                     !.displ_val_buff = GSS_C_EMPTY_BUFFER]
                evs == <<CopyEv("val_buff", loc.val_buff),
                         CopyEv("displ_val_buff", loc.displ_val_buff)>> \o GetReleases
            IN  /\ loc' = after
                /\ min_stat' = 0
                /\ IF GetLoopContinues(loc.more_val)
                   THEN /\ trace' = trace \o evs
                        /\ Issue(GetNameAttributeCall(loc.more_val))
                   ELSE /\ ReturnValue(evs,
                                        GetNameAttributeResult(after.py_vals,
                                                               after.py_displ_vals,
                                                               loc.authenticated,
                                                               loc.complete))
                        /\ UNCHANGED pend
       ELSE /\ RaiseGSSError(<<>>)
            /\ UNCHANGED <<loc, pend, min_stat>>
    /\ UNCHANGED <<op, gil, args, maj_stat, name_attr, entry_attr, prev>>

\* --------------------------------------------------- delete_name_attribute
delete_name_attribute ==
    /\ pc = "idle"
    /\ op' = "delete_name_attribute"
    /\ args' = [attr |-> AttrKey]
    /\ loc' = NoArgs
    /\ Issue([fn |-> "gss_delete_name_attribute", args |-> [attr |-> AttrKey]])
    /\ UNCHANGED <<gil, maj_stat, min_stat, trace, name_attr, entry_attr>>
    /\ prev' = KeepPrev("delete_name_attribute")

gss_delete_name_attribute ==
    /\ pc = "native"
    /\ pend.fn = "gss_delete_name_attribute"
    /\ \/ /\ name_attr' = [name_attr EXCEPT !.vals = <<>>, !.complete = FALSE]
          /\ NativeReturn(GSS_S_COMPLETE, 0, {}, loc)
       \/ /\ NativeFails({})
          /\ UNCHANGED name_attr
    /\ UNCHANGED <<op, gil, args, entry_attr, prev>>

delete_name_attribute_status ==
    /\ pc = "status"
    /\ op = "delete_name_attribute"
    /\ IF maj_stat # GSS_S_COMPLETE
       THEN RaiseGSSError(<<>>)
       ELSE ReturnValue(<<>>, None)
    /\ UNCHANGED <<op, gil, args, loc, pend, maj_stat, min_stat, name_attr, entry_attr, prev>>

\* -------------------------------- display_name_ext, export_name_composite
NameTypes == {"nt_user", "nt_hostbased"}

\* one native call with one output buffer `buf`: copy, release and return
\* the bytes on success, raise otherwise
SingleBufferStatus(buf) ==
    /\ IF maj_stat = GSS_S_COMPLETE
       THEN /\ ReturnValue(<<CopyEv(buf, loc[buf]), ReleaseEv("gss_release_buffer", buf)>>,
                           loc[buf])
            /\ loc' = [loc EXCEPT ![buf] = GSS_C_EMPTY_BUFFER]
            /\ min_stat' = 0
       ELSE /\ RaiseGSSError(<<>>)
            /\ UNCHANGED <<loc, min_stat>>
    /\ UNCHANGED <<op, gil, args, pend, maj_stat, name_attr, entry_attr, prev>>

display_name_ext ==
    /\ pc = "idle"
    /\ \E name_type \in NameTypes :
        /\ args' = [name_type |-> name_type]
        /\ Issue([fn |-> "gss_display_name_ext", args |-> [name_type |-> name_type]])
    /\ op' = "display_name_ext"
    /\ loc' = [output_name |-> GSS_C_EMPTY_BUFFER]
    /\ UNCHANGED <<gil, maj_stat, min_stat, trace, name_attr, entry_attr>>
    /\ prev' = KeepPrev("display_name_ext")

gss_display_name_ext ==
    /\ pc = "native"
    /\ pend.fn = "gss_display_name_ext"
    /\ \/ NativeReturn(GSS_S_COMPLETE, 0, {"output_name"},
                        [loc EXCEPT !.output_name = <<"name as", pend.args.name_type>>])
       \/ NativeFails({"output_name"})
    /\ UNCHANGED <<op, gil, args, name_attr, entry_attr, prev>>

display_name_ext_status ==
    /\ pc = "status"
    /\ op = "display_name_ext"
    /\ SingleBufferStatus("output_name")

export_name_composite ==
    /\ pc = "idle"
    /\ op' = "export_name_composite"
    /\ args' = NoArgs
    /\ loc' = [res |-> GSS_C_EMPTY_BUFFER]
    /\ Issue([fn |-> "gss_export_name_composite", args |-> NoArgs])
    /\ UNCHANGED <<gil, maj_stat, min_stat, trace, name_attr, entry_attr>>
    /\ prev' = KeepPrev("export_name_composite")

gss_export_name_composite ==
    /\ pc = "native"
    /\ pend.fn = "gss_export_name_composite"
    /\ \/ NativeReturn(GSS_S_COMPLETE, 0, {"res"},
                        [loc EXCEPT !.res = <<"composite", name_attr.vals>>])
       \/ NativeFails({"res"})
    /\ UNCHANGED <<op, gil, args, name_attr, entry_attr, prev>>

export_name_composite_status ==
    /\ pc = "status"
    /\ op = "export_name_composite"
    /\ SingleBufferStatus("res")

\* ---------------------------------------------------------- the caller
\* the invocation has ended; the caller may invoke another wrapper
NextInvocation ==
    /\ pc = "done"
    /\ pc' = "idle"
    /\ op' = None
    /\ args' = NoArgs
    /\ loc' = NoArgs
    /\ pend' = NoPend
    /\ maj_stat' = Undef
    /\ min_stat' = Undef
    /\ trace' = <<>>
    /\ entry_attr' = name_attr
    /\ prev' = IF /\ \E f \in Follows : f[1] = op
                  /\ trace # <<>>
                  /\ trace[Len(trace)].ev = "return"
               THEN [op |-> op, args |-> args, entry |-> entry_attr.vals,
                     result |-> trace[Len(trace)].value]
               ELSE NoPrev
    /\ UNCHANGED <<gil, name_attr>>

Next ==
    \/ wrap_aead
    \/ gss_wrap_aead
    \/ wrap_aead_status
    \/ unwrap_aead
    \/ gss_unwrap_aead
    \/ unwrap_aead_status
    \/ add_cred_with_password
    \/ gss_add_cred_with_password
    \/ add_cred_with_password_status
    \/ set_cred_option
    \/ gss_set_cred_option
    \/ set_cred_option_status
    \/ inquire_name
    \/ gss_inquire_name
    \/ inquire_name_status
    \/ set_name_attribute
    \/ gss_set_name_attribute
    \/ set_name_attribute_status
    \/ get_name_attribute
    \/ gss_get_name_attribute
    \/ get_name_attribute_status
    \/ delete_name_attribute
    \/ gss_delete_name_attribute
    \/ delete_name_attribute_status
    \/ display_name_ext
    \/ gss_display_name_ext
    \/ display_name_ext_status
    \/ export_name_composite
    \/ gss_export_name_composite
    \/ export_name_composite_status
    \/ NextInvocation

Spec == Init /\ [][Next]_vars
\* ================================================================ claims
Done == pc = "done"
Returned == Done /\ Returns # <<>>
Raised == Done /\ Raises # <<>>
LastCall == Calls[Len(Calls)]
Result == Returns[1].value

\* the native calls of the invocation, the one in flight included
Issued ==
    Calls \o (IF pc = "native" THEN <<[fn |-> pend.fn, args |-> pend.args]>> ELSE <<>>)

\* ------------------------------------------------------------------- C1
\* C1: set_name_attribute with N >= 1 values issues one
\* gss_set_name_attribute call per value, in list order, with completeness
\* flag 0 on the first N-1 calls and the caller's `complete` on the N-th;
\* a returned invocation has issued exactly N calls.
C1_CompleteOnLastCallOnly ==
    op = "set_name_attribute" =>
        /\ \A k \in 1 .. Len(Issued) :
            /\ Issued[k].fn = "gss_set_name_attribute"
            /\ Issued[k].args.value = args.value[k]
            /\ Issued[k].args.complete =
                   (IF k = Len(args.value) THEN args.complete ELSE 0)
        /\ Returned => Len(Calls) = Len(args.value)

\* ------------------------------------------------------------------- C2
\* C2: get_name_attribute calls gss_get_name_attribute at least once and
\* again until `more` is 0; a returned invocation on an attribute with K
\* values made K calls, the first with more = -1, and both result lists hold
\* the K values (raw, display) in the native order.
C2_GetDrainsAllValues ==
    (op = "get_name_attribute" /\ Done) =>
        /\ Len(Calls) >= 1
        /\ Calls[1].args.more = -1
        /\ Returned =>
            LET K == Len(name_attr.vals)
            IN  /\ Len(Calls) = K
                /\ LastCall.out.more_val = 0
                /\ \A k \in 1 .. (K - 1) : Calls[k].out.more_val # 0
                /\ Result.raw_values = name_attr.vals
                /\ Len(Result.display_values) = K
                /\ \A k \in 1 .. K :
                       Result.display_values[k] = DisplayOf(name_attr.vals[k])

C2_Witness ==
    /\ op = "get_name_attribute"
    /\ Returned
    /\ Len(Calls) = 2
    /\ Result.raw_values = <<"v2", "v1">>

\* ------------------------------------------------------------------- C3
\* C3: when an invocation ends, the number of release calls equals the
\* number of output buffers the native calls populated, on the failed paths
\* as on the successful ones.
C3_ReleasesMatchPopulated ==
    Done => Len(Releases) = SumPopulated(Calls)

\* ------------------------------------------------------------------- C4
\* C4: an invocation ends in exactly one return or one raise; a native call
\* with a non-success major status is the last call and the raised GSSError
\* carries that call's major and minor codes; when every native call
\* succeeded no GSSError is raised.
C4_OneOutcomeWithCodes ==
    /\ ~Done => (Raises = <<>> /\ Returns = <<>>)
    /\ Done =>
        /\ Len(Raises) + Len(Returns) = 1
        /\ trace[Len(trace)].ev \in {"raise", "return"}
        /\ \A k \in 1 .. Len(Calls) :
               Calls[k].maj # GSS_S_COMPLETE =>
                   /\ k = Len(Calls)
                   /\ Len(Raises) = 1
                   /\ Raises[1].exc = "GSSError"
                   /\ Raises[1].maj = Calls[k].maj
                   /\ Raises[1].min = Calls[k].min
        /\ (\A k \in 1 .. Len(Calls) : Calls[k].maj = GSS_S_COMPLETE) =>
               \A r \in 1 .. Len(Raises) : Raises[r].exc # "GSSError"

C4_Witness ==
    /\ op = "get_name_attribute"
    /\ Raised
    /\ Len(Calls) = 2
    /\ Len(Releases) = 2
    /\ Raises[1].maj = "GSS_S_UNAVAILABLE"
    /\ Raises[1].min = 2

\* ------------------------------------------------------------------- C5
\* C5: given an input credential, add_cred_with_password with a usage other
\* than 'initiate', 'accept' or 'both' raises ValueError without a native
\* call; with one of the three it makes one gss_add_cred_with_password call
\* that carries the matching native usage constant.
C5_UsageValidatedBeforeCall ==
    (op = "add_cred_with_password" /\ args.input_cred # None) =>
        IF args.usage \notin {"initiate", "accept", "both"}
        THEN /\ Done
             /\ Len(trace) = 1
             /\ trace[1].ev = "raise"
             /\ trace[1].exc = "ValueError"
        ELSE /\ Len(Issued) = 1
             /\ Issued[1].fn = "gss_add_cred_with_password"
             /\ Issued[1].args.cred_usage =
                    (CASE args.usage = "initiate" -> "GSS_C_INITIATE"
                       [] args.usage = "accept" -> "GSS_C_ACCEPT"
                       [] args.usage = "both" -> "GSS_C_BOTH")

C5_Witness ==
    /\ op = "add_cred_with_password"
    /\ args.input_cred # None
    /\ args.usage = "bogus"
    /\ Raised
    /\ Calls = <<>>

\* ------------------------------------------------------------------- C6
\* C6: a native call that returned a non-success major status is the last
\* native call of its invocation: nothing is issued after it.
C6_NoCallAfterFailure ==
    \A k \in 1 .. Len(Calls) :
        Calls[k].maj # GSS_S_COMPLETE => (k = Len(Calls) /\ pc # "native")

C6_Witness ==
    /\ op = "get_name_attribute"
    /\ Done
    /\ Len(name_attr.vals) = 3
    /\ Len(Calls) = 2
    /\ LastCall.maj # GSS_S_COMPLETE

\* ------------------------------------------------------------------- C7
\* C7: when the k-th gss_set_name_attribute call fails, the error is raised
\* right after it, no delete call is made, and the attribute holds the
\* values it had at entry followed by the first k-1 new values.
C7_NoRollbackOnFailure ==
    (op = "set_name_attribute" /\ Done /\ Calls # <<>>
        /\ \E k \in 1 .. Len(Calls) : Calls[k].maj # GSS_S_COMPLETE) =>
        LET k == CHOOSE j \in 1 .. Len(Calls) : Calls[j].maj # GSS_S_COMPLETE
        IN  /\ Len(trace) = k + 1
            /\ trace[k].ev = "call"
            /\ trace[k + 1].ev = "raise"
            /\ \A j \in 1 .. Len(Calls) : Calls[j].fn = "gss_set_name_attribute"
            /\ name_attr.vals = entry_attr.vals \o SubSeq(args.value, 1, k - 1)

C7_Witness ==
    /\ op = "set_name_attribute"
    /\ Raised
    /\ Len(Calls) = 2
    /\ entry_attr.vals = <<"v2">>
    /\ name_attr.vals = <<"v2", "v1">>

\* ------------------------------------------------------------------- C8
\* C8: the attribute-set out-pointer given to gss_inquire_name is NULL
\* exactly when attrs is false, and the is-mechanism-name and mechanism
\* out-pointers are NULL exactly when mech_name is false.
C8_OutPointersGated ==
    op = "inquire_name" =>
        /\ Len(Issued) = 1
        /\ Issued[1].fn = "gss_inquire_name"
        /\ (Issued[1].args.attrs = NULL) <=> ~args.attrs
        /\ (Issued[1].args.name_is_mn = NULL) <=> ~args.mech_name
        /\ (Issued[1].args.mech_type = NULL) <=> ~args.mech_name

C8_Witness ==
    /\ op = "inquire_name"
    /\ pc = "native"
    /\ ~args.attrs
    /\ args.mech_name
    /\ pend.args.attrs = NULL
    /\ pend.args.name_is_mn # NULL

\* ------------------------------------------------------------------- C9
\* C9: on a successful inquire_name, when the attribute set is
\* GSS_C_NO_BUFFER_SET (attrs not requested included) the returned list is
\* empty and gss_release_buffer_set is not called; otherwise the elements
\* are returned in order and gss_release_buffer_set is called once, after
\* every element was copied.
C9_BufferSetReleasedUnlessSentinel ==
    (op = "inquire_name" /\ Returned) =>
        LET attr_names == Calls[1].out.attr_names
        IN  /\ ~args.attrs => attr_names = GSS_C_NO_BUFFER_SET
            /\ IF attr_names = GSS_C_NO_BUFFER_SET
               THEN /\ Result.attrs = <<>>
                    /\ Releases = <<>>
               ELSE /\ Result.attrs = attr_names.elements
                    /\ Len(Releases) = 1
                    /\ Releases[1].fn = "gss_release_buffer_set"
                    /\ Len(Events("copy")) = attr_names.count
                    /\ \A i \in 1 .. attr_names.count :
                           /\ trace[1 + i].ev = "copy"
                           /\ trace[1 + i].data = attr_names.elements[i]
                    /\ trace[2 + attr_names.count].ev = "release"

C9_Witness ==
    /\ op = "inquire_name"
    /\ Returned
    /\ Result.attrs = <<"attr_b", "attr_a">>
    /\ Len(Releases) = 1

\* ------------------------------------------------------------------ C10
\* C10 as stated: with an absent (None) input credential and a valid usage,
\* add_cred_with_password makes the native call, with no input credential.
C10_NoneInputCredReachesNative ==
    (op = "add_cred_with_password" /\ args.input_cred = None
        /\ args.usage \in {"initiate", "accept", "both"} /\ Done) =>
        /\ Len(Calls) = 1
        /\ Calls[1].args.input_cred_handle = GSS_C_NO_CREDENTIAL

\* C10 as amended: add_cred_with_password rejects an absent (None) input
\* credential with a TypeError before any native call; given an input
\* credential, the native call carries that credential's handle and, on
\* success, the returned credential is a new Creds object holding the handle
\* the native call created.
C10_InputCredRequired ==
    (op = "add_cred_with_password" /\ Done) =>
        IF args.input_cred = None
        THEN /\ Len(trace) = 1
             /\ trace[1].ev = "raise"
             /\ trace[1].exc = "TypeError"
        ELSE \A k \in 1 .. Len(Calls) :
                 /\ Calls[k].args.input_cred_handle = "cred_handle_in"
                 /\ Returned =>
                        /\ Result.creds.obj # args.input_cred
                        /\ Result.creds.raw_creds = Calls[k].out.creds
                        /\ Result.creds.raw_creds = "cred_handle_new"

C10_Witness ==
    /\ op = "add_cred_with_password"
    /\ args.input_cred = None
    /\ args.usage = "initiate"
    /\ Raised
    /\ Raises[1].exc = "TypeError"
    /\ Calls = <<>>

\* ------------------------------------------------------------------- C11
\* C11: set_cred_option issues a single gss_set_cred_option call; when
\* `creds` is absent one Creds object is created, before that call, and it is
\* the object returned on success; when `creds` is supplied no Creds object
\* is created, the call is given that object's handle, and the object
\* returned on success is the caller's own.
C11_SameCredsObjectReturned ==
    op = "set_cred_option" =>
        LET news == Events("new")
        IN  /\ Len(Issued) <= 1
            /\ \A j \in DOMAIN Issued : Issued[j].fn = "gss_set_cred_option"
            /\ pc # "idle" => Len(Issued) = 1
            /\ IF args.creds = None
               THEN /\ Len(news) = 1
                    /\ trace[1].ev = "new"
                    /\ Issued[1].args.cred = GSS_C_NO_CREDENTIAL
                    /\ Returned => /\ Result.obj = news[1].obj
                                   /\ Result.raw_creds = LastCall.out.output_creds.raw_creds
               ELSE /\ news = <<>>
                    /\ Issued[1].args.cred = RawCredsOf(args.creds)
                    /\ Returned => Result.obj = args.creds

\* set_cred_option has returned the Creds object it was given
C11_Witness ==
    /\ op = "set_cred_option"
    /\ Returned
    /\ args.creds = "creds_in"
    /\ Result.obj = "creds_in"
    /\ Len(Calls) = 1

\* ------------------------------------------------------------------- C12
\* C12: the associated-data pointer wrap_aead and unwrap_aead give the native
\* call is the null sentinel GSS_C_NO_BUFFER exactly when `associated` is
\* None; any supplied value, b"" included, is passed as a descriptor of its
\* own length and bytes.
C12_SentinelOnlyWhenAbsent ==
    (op \in {"wrap_aead", "unwrap_aead"} /\ Issued # <<>>) =>
        LET ptr == Issued[1].args.input_assoc_buffer
        IN  /\ (ptr = GSS_C_NO_BUFFER) <=> (args.associated = None)
            /\ args.associated # None =>
                    ptr = [length |-> Len(args.associated), value |-> args.associated]

\* a native call was given a real descriptor of length 0 for associated = b""
C12_Witness ==
    /\ op \in {"wrap_aead", "unwrap_aead"}
    /\ Calls # <<>>
    /\ args.associated # None
    /\ Len(args.associated) = 0
    /\ Calls[1].args.input_assoc_buffer = [length |-> 0, value |-> <<>>]

\* the same optional bytes argument: both absent, or both given and equal
SameOptional(a, b) ==
    IF a = None THEN b = None ELSE (b # None /\ a = b)

\* unwrap_aead is given the message wrap_aead has just returned
UnwrapsTheWrapped ==
    /\ op = "unwrap_aead"
    /\ prev.op = "wrap_aead"
    /\ args.message = prev.result.message

\* ------------------------------------------------------------------- C13
\* C13: when wrap_aead(ctx, M, A, confidential=True) has returned a message
\* the mechanism applied confidentiality to, unwrap_aead given that message
\* and the same A (absent included) returns whenever the native call reports
\* success, and what it returns is payload M with encrypted = True.
C13_RoundTrip ==
    (/\ UnwrapsTheWrapped
     /\ prev.args.confidential
     /\ prev.result.encrypted
     /\ SameOptional(args.associated, prev.args.associated)
     /\ Done)
        => /\ Returned <=> LastCall.maj = GSS_S_COMPLETE
           /\ Returned => /\ Result.message = prev.args.message
                          /\ Result.encrypted = TRUE

\* a message wrapped with associated data has been unwrapped with it
C13_Witness ==
    /\ UnwrapsTheWrapped
    /\ prev.args.confidential
    /\ prev.result.encrypted
    /\ prev.args.associated # None
    /\ prev.args.associated = <<7>>
    /\ SameOptional(args.associated, prev.args.associated)
    /\ Returned
    /\ Result.message = prev.args.message

\* ------------------------------------------------------------------- C14
\* the associated bytes a wrapper's `associated` argument stands for
AssocBytesOf(associated) == IF associated = None THEN <<>> ELSE associated

\* the invocation raised GSSError and returned nothing
RaisedGSSError == Raised /\ Returns = <<>> /\ Raises[1].exc = "GSSError"

\* C14 as stated: unwrap_aead following wrap_aead, given an altered message,
\* or the wrapped message with an `associated` argument that is not the one
\* given to wrap_aead (absent against present included), raises GSSError and
\* returns no payload.
C14_AnyOtherAssociatedRejected ==
    (/\ op = "unwrap_aead"
     /\ prev.op = "wrap_aead"
     /\ \/ args.message = Tampered
        \/ ~SameOptional(args.associated, prev.args.associated)
     /\ Done)
        => RaisedGSSError

\* C14: unwrap_aead following wrap_aead, given an altered message, or the
\* wrapped message with associated bytes that differ from the bytes given to
\* wrap_aead (an absent value standing for no bytes), raises GSSError and
\* returns no payload.
C14_AlteredOrOtherBytesRejected ==
    (/\ op = "unwrap_aead"
     /\ prev.op = "wrap_aead"
     /\ \/ args.message = Tampered
        \/ AssocBytesOf(args.associated) # AssocBytesOf(prev.args.associated)
     /\ Done)
        => RaisedGSSError

\* the wrapped message was presented with other associated bytes and rejected
C14_Witness ==
    /\ UnwrapsTheWrapped
    /\ AssocBytesOf(prev.args.associated) = <<7>>
    /\ AssocBytesOf(args.associated) = <<>>
    /\ RaisedGSSError
    /\ LastCall.fn = "gss_unwrap_aead"

\* ------------------------------------------------------------------- C15
\* C15: get_name_attribute leaves the name's attribute as it found it, and a
\* get_name_attribute that returns right after another one returned, on the
\* same name and attribute, returns the same raw values, display values,
\* authenticated and complete.
C15_GetIsRepeatable ==
    op = "get_name_attribute" =>
        /\ name_attr = entry_attr
        /\ (prev.op = "get_name_attribute" /\ Returned) =>
                /\ Result.raw_values = prev.result.raw_values
                /\ Result.display_values = prev.result.display_values
                /\ Result.authenticated = prev.result.authenticated
                /\ Result.complete = prev.result.complete

\* two get_name_attribute invocations in a row returned two values each
C15_Witness ==
    /\ op = "get_name_attribute"
    /\ prev.op = "get_name_attribute"
    /\ Returned
    /\ Len(Result.raw_values) = 2
    /\ Len(Calls) = 2

\* ------------------------------------------------------------------- C16
\* C16: when set_name_attribute(name, k, [v1..vN], complete=c) has returned
\* on a name whose attribute k had no values, a get_name_attribute(name, k)
\* that follows and returns gives raw values [v1..vN] in that order and
\* complete equal to c.
C16_SetThenGet ==
    (/\ op = "get_name_attribute"
     /\ prev.op = "set_name_attribute"
     /\ prev.entry = <<>>
     /\ Returned)
        => /\ Result.raw_values = prev.args.value
           /\ Result.complete = (prev.args.complete # 0)

\* ------------------------------------------------------------------- C17
\* C17: a set_name_attribute that returns has added its values, in order,
\* after the values the attribute held; so after two in a row the attribute
\* holds what it held before the first, then the first call's values, then
\* the second call's, and after a delete_name_attribute that returned the
\* attribute holds the values of the set that follows and no others.
C17_SetAddsDeleteClears ==
    (op = "set_name_attribute" /\ Returned) =>
        /\ name_attr.vals = entry_attr.vals \o args.value
        /\ prev.op = "set_name_attribute" =>
                name_attr.vals = prev.entry \o prev.args.value \o args.value
        /\ prev.op = "delete_name_attribute" => name_attr.vals = args.value

\* a second set_name_attribute in a row has returned, both with values
C17_Witness ==
    /\ op = "set_name_attribute"
    /\ Returned
    /\ prev.op = "set_name_attribute"
    /\ prev.entry = <<>>
    /\ prev.args.value = <<"v1">>
    /\ args.value = <<"v2", "v1">>
    /\ name_attr.vals = <<"v1", "v2", "v1">>

\* a set_name_attribute has returned after the delete of a non-empty attribute
C17_WitnessAfterDelete ==
    /\ op = "set_name_attribute"
    /\ Returned
    /\ prev.op = "delete_name_attribute"
    /\ prev.entry # <<>>
    /\ args.value # <<>>

\* ------------------------------------------------------------------- C18
\* C18: the authenticated and complete flags of a get_name_attribute that
\* returns are the ones written by its last native call, the call that left
\* more at 0; what earlier calls of the loop wrote is not returned.
C18_FlagsOfLastCall ==
    (op = "get_name_attribute" /\ Returned) =>
        /\ LastCall.out.more_val = 0
        /\ \A j \in 1 .. (Len(Calls) - 1) : Calls[j].out.more_val # 0
        /\ Result.authenticated = (LastCall.out.authenticated # 0)
        /\ Result.complete = (LastCall.out.complete # 0)

\* a get_name_attribute has returned whose first call wrote other flags than
\* its last call
C18_Witness ==
    /\ op = "get_name_attribute"
    /\ Returned
    /\ Len(Calls) >= 2
    /\ Calls[1].out.authenticated # LastCall.out.authenticated
    /\ Calls[1].out.complete # LastCall.out.complete
    /\ Result.complete = (LastCall.out.complete # 0)

\* ------------------------------------------------------------------- C19
\* the populated native buffers not yet released after the first n events
RECURSIVE HeldAfter(_)
HeldAfter(n) ==
    IF n = 0 THEN 0
    ELSE HeldAfter(n - 1)
         + (IF trace[n].ev = "call" THEN Cardinality(trace[n].populated) ELSE 0)
         - (IF trace[n].ev = "release" THEN 1 ELSE 0)

\* C19: in get_name_attribute no populated native buffer is held unreleased
\* when a gss_get_name_attribute call is issued (both buffers of a pass are
\* released before the next call), and never more than 2 are held.
C19_BuffersReleasedBeforeNextCall ==
    op = "get_name_attribute" =>
        /\ \A n \in DOMAIN trace :
              /\ HeldAfter(n) <= 2
              /\ HeldAfter(n) >= 0
              /\ trace[n].ev = "call" => HeldAfter(n - 1) = 0
        /\ pc = "native" => HeldAfter(Len(trace)) = 0

\* a second gss_get_name_attribute call was issued after both buffers of the
\* first pass had been populated and released
C19_Witness ==
    /\ op = "get_name_attribute"
    /\ pc = "native"
    /\ Len(Calls) = 1
    /\ Cardinality(Calls[1].populated) = 2
    /\ Len(Releases) = 2
    /\ HeldAfter(Len(trace)) = 0

\* ------------------------------------------------------------------- C20
\* whether the lock is held after the first n events
RECURSIVE LockedAfter(_)
LockedAfter(n) ==
    IF n = 0 THEN TRUE
    ELSE IF trace[n].ev = "lock" THEN trace[n].held
    ELSE LockedAfter(n - 1)

C21_EmptyListIsNoOp ==
    (op = "set_name_attribute" /\ Len(args.value) = 0) =>
        /\ Done
        /\ Issued = <<>>
        /\ Raises = <<>>
        /\ Returned
        /\ Result = None
        /\ name_attr = entry_attr

\* set_name_attribute(name, attr, [], complete=True) has returned on an
\* attribute that holds a value and is not complete
C21_Witness ==
    /\ op = "set_name_attribute"
    /\ Len(args.value) = 0
    /\ args.complete = 1
    /\ Returned
    /\ name_attr.vals # <<>>
    /\ ~name_attr.complete

\* ------------------------------------------------------------------- C22
\* the native calls a get_name_attribute invocation needs at most: one per
\* value, and one when the attribute has no value (that call fails)
GetCallBound == IF name_attr.vals = <<>> THEN 1 ELSE Len(name_attr.vals)

\* the steps a get_name_attribute invocation can still take: two for each
\* call not yet issued (the call, the code after it), and those left of the
\* call in progress
GetStepsLeft ==
    IF pc = "done" THEN 0
    ELSE 2 * (GetCallBound - Len(Issued)) + (IF pc = "native" THEN 2 ELSE 1)

\* get_name_attribute never issues more calls than the attribute has values,
\* it is never stuck before its end, and when it returns it has issued one
\* call per value
GetCallsBounded ==
    op = "get_name_attribute" =>
        /\ Len(Issued) <= GetCallBound
        /\ GetStepsLeft >= 0
        /\ pc = "native" => ENABLED gss_get_name_attribute
        /\ pc = "status" => ENABLED get_name_attribute_status
        /\ Returned => Len(Calls) = Len(name_attr.vals)

\* every step of a get_name_attribute invocation brings its end nearer
GetStepDecreases ==
    (op = "get_name_attribute" /\ pc # "done") =>
        /\ op' = "get_name_attribute"
        /\ GetStepsLeft' < GetStepsLeft

\* C22: every get_name_attribute invocation ends, by a return or a raise:
\* on an attribute of K values the loop ends when a call fails or when the
\* call handing out the last value leaves more at 0, after at most K native
\* calls (one call when K = 0, which fails); each step is enabled and
\* lowers the count of steps left. The number of passes is set by the
\* native layer alone: a return comes after exactly K calls, for every K.
C22_GetTerminates ==
    /\ []GetCallsBounded
    /\ [][GetStepDecreases]_pc

\* get_name_attribute has returned after as many calls as the native layer
\* holds values for the attribute, the most the model lets it hold
C22_Witness ==
    /\ op = "get_name_attribute"
    /\ Returned
    /\ Len(name_attr.vals) = MaxAttrVals
    /\ Len(Calls) = MaxAttrVals
    /\ LastCall.out.more_val = 0

====
